---- MODULE Spec2Model ----
(***************************************************************************)
(* The supervisor scheduler of preduce (src/actors/supervisor.rs) as a     *)
(* state machine: the supervisor's fields, its inbound channel, and the    *)
(* worker and reducer actors it talks to.  One step of the supervisor is   *)
(* everything it does between two blocking receives on `incoming`.         *)
(***************************************************************************)
EXTENDS Integers, Sequences, FiniteSets, TLC

\* ------------------------------------------------------------------ bounds
MaxWorkers == 2
MaxReducers == 2
MaxActors == 3
InitialSize == 3
MaxCands == 2
MaxFails == 1

VARIABLES
    pc,                          \* where SupervisorActor::run is
    num_workers,                 \* opts.num_workers()
    num_reducers,                \* opts.reducers().len()
    incoming,                    \* the supervisor's inbound channel
    smallest_interesting,
    last_iter_size,
    orig_size,
    test_case_file,              \* contents of opts.test_case
    backup_file,                 \* contents of <test_case>.orig
    worker_id_counter,
    workers,
    idle_workers,
    reducer_id_counter,
    reducer_actors,
    reducer_id_to_trait_object,
    reducers_without_actors,
    exhausted_reducers,
    reduction_queue,
    worker_actor,                \* WorkerId -> state of the worker thread
    reducer_actor,               \* ReducerId -> state of the reducer thread
    sigint_fired,                \* the SIGINT actor has delivered GotSigint
    fails,                       \* worker and reducer panics/errors so far
    handled,                     \* the message the supervisor handled in this step
    sent,                        \* what the supervisor sent while handling it
    logged,                      \* what it sent to the logger meanwhile
    panic_msg,                   \* the assertion that stopped the supervisor
    logger_pc,                   \* the logger thread: "off", "logging", "closed"
    logger_smallest_size,        \* Logger::run: smallest_size
    stats,                       \* Logger::run: provenance -> three counters
    consumed,                    \* the log messages the logger has taken
    printed_final_size,          \* the number after "Final size is"
    printed_rows,                \* the rows of the histogram, top first
    repo                         \* a workspace: git repository and test_case

vars == <<pc, num_workers, num_reducers, incoming, smallest_interesting,
          last_iter_size, orig_size, test_case_file, backup_file,
          worker_id_counter, workers, idle_workers, reducer_id_counter,
          reducer_actors, reducer_id_to_trait_object, reducers_without_actors,
          exhausted_reducers, reduction_queue, worker_actor, reducer_actor,
          sigint_fired, fails, handled, sent, logged, panic_msg,
          logger_pc, logger_smallest_size, stats, consumed,
          printed_final_size, printed_rows, repo>>

supVars == <<smallest_interesting, last_iter_size, test_case_file,
             worker_id_counter, workers, idle_workers, reducer_id_counter,
             reducer_actors, reducer_id_to_trait_object,
             reducers_without_actors, exhausted_reducers, reduction_queue,
             panic_msg>>


cfgVars == <<num_workers, num_reducers, orig_size, backup_file>>

logVars == <<logger_pc, logger_smallest_size, stats, consumed,
             printed_final_size, printed_rows>>

\* ------------------------------------------------------------- small helpers
Min(a, b) == IF a < b THEN a ELSE b

Range(f) == {f[i] : i \in DOMAIN f}

RECURSIVE SeqOfSet(_)
SeqOfSet(S) ==
    IF S = {} THEN <<>>
    ELSE LET m == CHOOSE x \in S : \A y \in S : x <= y
         IN <<m>> \o SeqOfSet(S \ {m})

NoMsg == [type |-> "None"]
NoFile == [size |-> 0, provenance |-> 0]
NoSeed == NoFile

\* handled and sent describe the step just taken; a step of another actor
\* leaves them empty.
NotSupervisor ==
    /\ handled' = NoMsg /\ sent' = <<>> /\ logged' = <<>>
    /\ UNCHANGED <<logVars, repo>>

\* A test case (test_case::Interesting, test_case::PotentialReduction) as far
\* as the supervisor looks at it: its size and the reducer that produced it
\* (provenance 0 is the initial test case).
Interesting(size, provenance) == [size |-> size, provenance |-> provenance]

\* ------------------------------------------------------------ ReductionQueue
\* The queue is kept in the order it is drained in, highest priority first.
\* The oracle's priority decides where a new entry goes: behind `ahead`
\* entries whose priority is not lower.
QueueInsert(q, e, ahead) ==
    SubSeq(q, 1, ahead) \o <<e>> \o SubSeq(q, ahead + 1, Len(q))

\* oracle.predict: any priority, so any place in the queue.
Predict(q) == 0..Len(q)

QueueTake(q, n) == SubSeq(q, 1, n)

QueueRest(q, n) == SubSeq(q, n + 1, Len(q))

\* ------------------------------------------------- messages to the actors
ToWorker(w, m) == [to |-> "worker", id |-> w, msg |-> m]
ToReducer(r, m) == [to |-> "reducer", id |-> r, msg |-> m]

MsgShutdown == [type |-> "Shutdown"]
MsgNextReduction(e) ==
    [type |-> "NextReduction", size |-> e.size, provenance |-> e.provenance]
MsgSetSeed(seed) == [type |-> "SetSeed", seed |-> seed]
MsgRequestNext == [type |-> "RequestNext"]
MsgNotInteresting(size) == [type |-> "NotInteresting", size |-> size]

Send(s, m) == [s EXCEPT !.out = Append(@, m)]

\* A message to the logger actor.
Log(s, m) == [s EXCEPT !.log = Append(@, m)]

Panic(s, why) == [s EXCEPT !.panic = why]

\* --------------------------------------------------- the supervisor's state
Cur ==
    [smallest_interesting |-> smallest_interesting,
     last_iter_size |-> last_iter_size,
     test_case_file |-> test_case_file,
     worker_id_counter |-> worker_id_counter,
     workers |-> workers,
     idle_workers |-> idle_workers,
     reducer_id_counter |-> reducer_id_counter,
     reducer_actors |-> reducer_actors,
     reducer_id_to_trait_object |-> reducer_id_to_trait_object,
     reducers_without_actors |-> reducers_without_actors,
     exhausted_reducers |-> exhausted_reducers,
     reduction_queue |-> reduction_queue,
     out |-> <<>>,
     log |-> <<>>,
     panic |-> "",
     ret |-> "recv"]

\* ------------------------------------------------ supervisor: its operations
\* Each takes the supervisor's state as a record and returns it changed; a
\* failed assertion (or index of a missing key) sets `panic` and everything
\* after it is skipped, as after a Rust panic.

spawn_workers(s) ==
    IF s.panic # "" THEN s
    ELSE IF ~(Cardinality(s.workers) <= num_workers)
    THEN Panic(s, "spawn_workers: workers.len() <= num_workers")
    ELSE LET k == num_workers - Cardinality(s.workers)
             new == s.worker_id_counter .. (s.worker_id_counter + k - 1)
         IN [s EXCEPT !.workers = @ \cup new,
                      !.worker_id_counter = @ + k]

\* spawn_reducers forgetting line 646: new reducers do not start exhausted.
spawn_reducers_unmarked(s) ==
    IF s.panic # "" THEN s
    ELSE LET pool == s.reducers_without_actors
             first == s.reducer_id_counter
             new == first .. (first + Len(pool) - 1)
             old == s.reducer_id_to_trait_object
         IN [s EXCEPT
                !.reducer_id_counter = @ + Len(pool),
                !.reducer_id_to_trait_object =
                    [id \in (DOMAIN old) \cup new |->
                        IF id \in DOMAIN old THEN old[id]
                        ELSE pool[id - first + 1]],
                !.reducer_actors = @ \cup new,
                !.reducers_without_actors = <<>>]

spawn_reducers(s) ==
    IF s.panic # "" THEN s
    ELSE LET pool == s.reducers_without_actors
             first == s.reducer_id_counter
             new == first .. (first + Len(pool) - 1)
             old == s.reducer_id_to_trait_object
         IN [s EXCEPT
                !.reducer_id_counter = @ + Len(pool),
                !.reducer_id_to_trait_object =
                    [id \in (DOMAIN old) \cup new |->
                        IF id \in DOMAIN old THEN old[id]
                        ELSE pool[id - first + 1]],
                !.reducer_actors = @ \cup new,
                !.exhausted_reducers = @ \cup new,
                !.reducers_without_actors = <<>>]

\* The reseed loop asking every reducer for its next reduction.
ReseedRequests_always(s, id) == TRUE

\* line 668: does the reseed loop also ask this reducer for its next reduction
ReseedRequests(s, id) == id \in s.exhausted_reducers

\* ReseedEach forgetting line 670: a re-requested reducer stays marked.
RECURSIVE ReseedEach_keeps(_, _)
ReseedEach_keeps(s, ids) ==
    IF ids = <<>> THEN s
    ELSE LET id == Head(ids)
             s1 == Send(s, ToReducer(id, MsgSetSeed(s.smallest_interesting)))
             s2 == IF ReseedRequests(s1, id)
                   THEN Send(s1, ToReducer(id, MsgRequestNext))
                   ELSE s1
         IN ReseedEach_keeps(s2, Tail(ids))

RECURSIVE ReseedEach(_, _)
ReseedEach(s, ids) ==
    IF ids = <<>> THEN s
    ELSE LET id == Head(ids)
             s1 == Send(s, ToReducer(id, MsgSetSeed(s.smallest_interesting)))
             s2 == IF ReseedRequests(s1, id)
                   THEN [Send(s1, ToReducer(id, MsgRequestNext))
                            EXCEPT !.exhausted_reducers = @ \ {id}]
                   ELSE s1
         IN ReseedEach(s2, Tail(ids))

\* A reseed that reaches no reducer.
reseed_reducers_none(s) == s

reseed_reducers(s) ==
    IF s.panic # "" THEN s
    ELSE LET s1 == spawn_reducers(s)
         IN ReseedEach(s1, SeqOfSet(s1.reducer_actors))

\* DrainRequestsNext with the test inverted.
DrainRequestsNext_inverted(s, reducer_id) == reducer_id \in s.exhausted_reducers

\* line 501: pipeline the next reduction of the reducer whose Potential was
\* just handed to a worker
DrainRequestsNext(s, reducer_id) == reducer_id \notin s.exhausted_reducers

RECURSIVE DispatchPairs(_, _, _)
DispatchPairs(s, ws, rs) ==
    IF s.panic # "" \/ ws = <<>> THEN s
    ELSE LET worker == Head(ws)
             e == Head(rs)
         IN IF worker \notin s.workers
            THEN Panic(s, "drain_queues: workers.contains_key(worker.id())")
            ELSE IF e.reducer \notin s.reducer_actors
            THEN Panic(s, "drain_queues: reducer_actors.contains_key(reducer_id)")
            ELSE LET s1 == Send(s, ToWorker(worker, MsgNextReduction(e)))
                     s2 == IF DrainRequestsNext(s1, e.reducer)
                           THEN Send(s1, ToReducer(e.reducer, MsgRequestNext))
                           ELSE s1
                 IN DispatchPairs(s2, Tail(ws), Tail(rs))

\* line 487
NumToDrain(s) == Min(Len(s.idle_workers), Len(s.reduction_queue))

\* drain_queues leaving the dispatched workers in idle_workers.
drain_queues_keeps_idle(s) ==
    IF s.panic # "" THEN s
    ELSE LET n == Min(Len(s.idle_workers), Len(s.reduction_queue))
             ws == SubSeq(s.idle_workers, 1, n)
             rs == QueueTake(s.reduction_queue, n)
             s1 == [s EXCEPT !.reduction_queue = QueueRest(@, n)]
         IN DispatchPairs(s1, ws, rs)

drain_queues(s) ==
    IF s.panic # "" THEN s
    ELSE IF ~(Len(s.idle_workers) > 0 \/ Len(s.reduction_queue) > 0)
    THEN Panic(s, "drain_queues: no potential to do new work")
    ELSE LET n == NumToDrain(s)
             ws == SubSeq(s.idle_workers, 1, n)
             rs == QueueTake(s.reduction_queue, n)
             s1 == [s EXCEPT
                      !.idle_workers = SubSeq(@, n + 1, Len(@)),
                      !.reduction_queue = QueueRest(@, n)]
         IN DispatchPairs(s1, ws, rs)

enqueue_worker_for_reduction(s, who) ==
    IF s.panic # "" THEN s
    ELSE IF who \notin s.workers
    THEN Panic(s, "enqueue_worker_for_reduction: workers.contains_key(who.id())")
    ELSE drain_queues([s EXCEPT !.idle_workers = Append(@, who)])

\* restart_worker leaving the dead worker's handle in the registry.
restart_worker_keeps(s, id) ==
    IF s.panic # "" THEN s
    ELSE IF id \notin s.workers
    THEN Panic(s, "restart_worker: old_worker.is_some()")
    ELSE spawn_workers(s)

restart_worker(s, id) ==
    IF s.panic # "" THEN s
    ELSE IF id \notin s.workers
    THEN Panic(s, "restart_worker: old_worker.is_some()")
    ELSE spawn_workers([s EXCEPT !.workers = @ \ {id}])

\* RetainKeeps with the comparison slipped to <=.
RetainKeeps_le(reduction_size, new_size) == reduction_size <= new_size

\* line 550: the prune keeps a queued reduction
RetainKeeps(reduction_size, new_size) == reduction_size < new_size

RECURSIVE RetainEach(_, _, _)
RetainEach(s, q, new_size) ==
    IF s.panic # "" \/ q = <<>> THEN s
    ELSE LET e == Head(q)
         IN IF RetainKeeps(e.size, new_size)
            THEN RetainEach([s EXCEPT !.reduction_queue = Append(@, e)],
                            Tail(q), new_size)
            ELSE IF e.reducer \notin s.reducer_actors
            THEN Panic(s, "retain: reducers[&reducer_id]")
            ELSE RetainEach(Send(s, ToReducer(e.reducer, MsgRequestNext)),
                            Tail(q), new_size)

\* IsNewSmallest without the comparison: every report is promoted.
IsNewSmallest_always(new_size, old_size) == TRUE

\* IsNewSmallest with the comparison slipped to <=.
IsNewSmallest_le(new_size, old_size) == new_size <= old_size

\* line 522: the reported test case becomes the new smallest
IsNewSmallest(new_size, old_size) == new_size < old_size

\* A copy that leaves the test case path empty.
copy_to_test_case_none(interesting) == NoFile

\* line 529: fs::copy(smallest_interesting.path(), &self.opts.test_case);
\* the result is the contents of opts.test_case.
copy_to_test_case(interesting) == interesting

handle_new_interesting_test_case(s, who, interesting) ==
    LET new_size == interesting.size
        old_size == s.smallest_interesting.size
    IN IF IsNewSmallest(new_size, old_size)
       THEN LET s1 == Log([s EXCEPT !.smallest_interesting = interesting,
                                    !.test_case_file =
                                        copy_to_test_case(interesting)],
                           [type |-> "NewSmallest", new_size |-> new_size,
                            provenance |-> interesting.provenance])
                s2 == reseed_reducers(s1)
                s3 == spawn_workers(s2)
                s4 == IF s3.panic # "" THEN s3
                      ELSE RetainEach([s3 EXCEPT !.reduction_queue = <<>>],
                                      s3.reduction_queue, new_size)
            IN enqueue_worker_for_reduction(s4, who)
       ELSE enqueue_worker_for_reduction(
                Log(s, [type |-> "IsNotSmaller",
                        provenance |-> interesting.provenance]), who)

RemoveKey(f, id) == [i \in (DOMAIN f) \ {id} |-> f[i]]

\* reducer_died dropping the reducer object instead of pooling it.
reducer_died_drops(s, id, type) ==
    IF id \notin s.reducer_actors
    THEN Panic(s, "reducer_actors.contains_key(&id)")
    ELSE IF id \notin DOMAIN s.reducer_id_to_trait_object
    THEN Panic(s, "reducer_id_to_trait_object.contains_key(&id)")
    ELSE [Log(s, [type |-> type, id |-> id]) EXCEPT
            !.reducer_actors = @ \ {id},
            !.reducer_id_to_trait_object = RemoveKey(@, id)]

\* A reducer_died that counts the dead reducer as exhausted.
reducer_died_exhausts(s, id, type) ==
    IF id \notin s.reducer_actors
    THEN Panic(s, "reducer_actors.contains_key(&id)")
    ELSE IF id \notin DOMAIN s.reducer_id_to_trait_object
    THEN Panic(s, "reducer_id_to_trait_object.contains_key(&id)")
    ELSE [Log(s, [type |-> type, id |-> id]) EXCEPT
            !.reducer_actors = @ \ {id},
            !.exhausted_reducers = @ \cup {id},
            !.reducer_id_to_trait_object = RemoveKey(@, id),
            !.reducers_without_actors =
                Append(@, s.reducer_id_to_trait_object[id])]

reducer_died(s, id, type) ==
    IF id \notin s.reducer_actors
    THEN Panic(s, "reducer_actors.contains_key(&id)")
    ELSE IF id \notin DOMAIN s.reducer_id_to_trait_object
    THEN Panic(s, "reducer_id_to_trait_object.contains_key(&id)")
    ELSE [Log(s, [type |-> type, id |-> id]) EXCEPT
            !.reducer_actors = @ \ {id},
            !.reducer_id_to_trait_object = RemoveKey(@, id),
            !.reducers_without_actors =
                Append(@, s.reducer_id_to_trait_object[id])]

\* SeedIsCurrent without the comparison: every ReplyExhausted is believed.
SeedIsCurrent_always(seed, smallest) == TRUE

\* line 362: the exhausted seed is the current smallest
SeedIsCurrent(seed, smallest) == seed = smallest

reply_exhausted(s, id, seed) ==
    IF id \notin s.reducer_actors
    THEN Panic(s, "reducer_actors.contains_key(&reducer.id())")
    ELSE IF id \notin DOMAIN s.reducer_id_to_trait_object
    THEN Panic(s, "reducer_id_to_trait_object.contains_key(&reducer.id())")
    ELSE IF SeedIsCurrent(seed, s.smallest_interesting)
    THEN [s EXCEPT !.exhausted_reducers = @ \cup {id}]
    ELSE Send(s, ToReducer(id, MsgRequestNext))

\* ReductionIsSmaller with the comparison slipped to <=.
ReductionIsSmaller_le(reduction_size, smallest_size) ==
    reduction_size <= smallest_size

\* line 374: the reduction is worth queueing
ReductionIsSmaller(reduction_size, smallest_size) ==
    reduction_size < smallest_size

reply_next_reduction(s, id, m, ahead) ==
    IF id \notin s.reducer_actors
    THEN Panic(s, "reducer_actors.contains_key(&reducer.id())")
    ELSE IF ReductionIsSmaller(m.size, s.smallest_interesting.size)
    THEN drain_queues([s EXCEPT !.reduction_queue =
            QueueInsert(@, [size |-> m.size, provenance |-> m.provenance,
                            reducer |-> id], ahead)])
    ELSE Send(Send(s, ToReducer(id, MsgNotInteresting(m.size))),
              ToReducer(id, MsgRequestNext))

RECURSIVE ShutdownEach(_, _)
ShutdownEach(s, ws) ==
    IF ws = <<>> THEN s
    ELSE ShutdownEach(Send(s, ToWorker(Head(ws), MsgShutdown)), Tail(ws))

\* got_sigint returning Ok(true) instead of Ok(false).
got_sigint_continue(s) ==
    LET s1 == ShutdownEach(s, SeqOfSet(s.workers))
    IN [s1 EXCEPT !.workers = {}, !.reduction_queue = <<>>, !.ret = "true"]

got_sigint(s) ==
    LET s1 == ShutdownEach(s, SeqOfSet(s.workers))
    IN [s1 EXCEPT !.workers = {}, !.reduction_queue = <<>>, !.ret = "false"]

\* NoMoreWork that wants at least one exhausted reducer.
NoMoreWork_some(s) ==
    /\ s.exhausted_reducers # {}
    /\ Cardinality(s.exhausted_reducers) = Cardinality(s.reducer_actors)
    /\ s.reduction_queue = <<>>

\* line 397: the reducers are all exhausted and nothing is queued
NoMoreWork(s) ==
    /\ Cardinality(s.exhausted_reducers) = Cardinality(s.reducer_actors)
    /\ s.reduction_queue = <<>>

\* A termination_check that drops every worker from the registry, busy ones
\* included, while shutting down only the idle ones.
termination_check_all(s) ==
    IF s.panic # "" \/ s.ret # "recv" THEN s
    ELSE LET s1 == IF NoMoreWork(s)
                   THEN [ShutdownEach(s, s.idle_workers) EXCEPT
                            !.workers = {}, !.idle_workers = <<>>]
                   ELSE s
         IN IF s1.workers = {} THEN [s1 EXCEPT !.ret = "true"] ELSE s1

termination_check(s) ==
    IF s.panic # "" \/ s.ret # "recv" THEN s
    ELSE LET s1 == IF NoMoreWork(s)
                   THEN [ShutdownEach(s, s.idle_workers) EXCEPT
                            !.workers = @ \ Range(s.idle_workers),
                            !.idle_workers = <<>>]
                   ELSE s
         IN IF s1.workers = {} THEN [s1 EXCEPT !.ret = "true"] ELSE s1

\* One pass of the `for msg in incoming` loop of reduction_loop_iteration.
handle_message(s, m, ahead) ==
    termination_check(
        CASE m.type \in {"WorkerErrored", "WorkerPanicked"} ->
                restart_worker(Log(s, [type |-> m.type, id |-> m.id]), m.id)
          [] m.type = "RequestNextReduction" ->
                enqueue_worker_for_reduction(s, m.who)
          [] m.type = "ReportInteresting" ->
                handle_new_interesting_test_case(s, m.who,
                    Interesting(m.size, m.provenance))
          [] m.type \in {"ReducerPanicked", "ReducerErrored"} ->
                reducer_died(s, m.id, m.type)
          [] m.type = "ReplyExhausted" ->
                reply_exhausted(s, m.reducer, m.seed)
          [] m.type = "ReplyNextReduction" ->
                reply_next_reduction(s, m.reducer, m, ahead)
          [] m.type = "GotSigint" ->
                got_sigint(s))

RECURSIVE ShutdownReducers(_, _)
ShutdownReducers(s, ids) ==
    IF ids = <<>> THEN s
    ELSE ShutdownReducers(Send(s, ToReducer(Head(ids), MsgShutdown)), Tail(ids))

shutdown(s) ==
    IF s.workers # {} THEN Panic(s, "shutdown: workers.is_empty()")
    ELSE IF s.reduction_queue # <<>>
    THEN Panic(s, "shutdown: reduction_queue.is_empty()")
    ELSE IF Cardinality(s.exhausted_reducers) # Cardinality(s.reducer_actors)
    THEN Panic(s, "shutdown: exhausted_reducers.len() == reducer_actors.len()")
    ELSE LET s1 == Log(s, [type |-> "FinalReducedSize",
                           final_size |-> s.smallest_interesting.size])
         IN [ShutdownReducers(s1, SeqOfSet(s.reducer_actors)) EXCEPT
                !.ret = "done"]

\* An outer loop that stops only on an interrupt.
LoopExits_interrupt(should_continue, size, last) == ~should_continue

\* LoopExits with the comparison slipped to >.
LoopExits_gt(should_continue, size, last) == ~should_continue \/ size > last

\* line 237: leave the outer loop
LoopExits(should_continue, size, last) == ~should_continue \/ size >= last

\* What run() does with the iteration's result, up to the next blocking
\* receive: shut down, or start the next iteration of the outer loop.
after_iteration(s) ==
    IF s.panic # "" \/ s.ret = "recv" THEN s
    ELSE IF LoopExits(s.ret = "true", s.smallest_interesting.size,
                      s.last_iter_size)
    THEN shutdown(s)
    ELSE LET s1 == [s EXCEPT !.last_iter_size = s.smallest_interesting.size,
                             !.ret = "recv"]
         IN spawn_workers(reseed_reducers(s1))

supervisor_step(s, m, ahead) == after_iteration(handle_message(s, m, ahead))

\* ------------------------------------------------------- delivery to actors
MsgsFor(out, kind, id) ==
    LET mine == SelectSeq(out, LAMBDA o : o.to = kind /\ o.id = id)
    IN [i \in 1..Len(mine) |-> mine[i].msg]

\* Workers spawned in this step start their thread; a message sent to a worker
\* or reducer whose thread has ended is lost.
DeliverWorkers(s) ==
    [id \in 0..(s.worker_id_counter - 1) |->
        IF id \in DOMAIN worker_actor
        THEN IF worker_actor[id].status = "dead" THEN worker_actor[id]
             ELSE [worker_actor[id] EXCEPT
                      !.inbox = @ \o MsgsFor(s.out, "worker", id)]
        ELSE [status |-> "fresh", inbox |-> MsgsFor(s.out, "worker", id)]]

DeliverReducers(s) ==
    [id \in 0..(s.reducer_id_counter - 1) |->
        IF id \in DOMAIN reducer_actor
        THEN IF ~reducer_actor[id].alive THEN reducer_actor[id]
             ELSE [reducer_actor[id] EXCEPT
                      !.inbox = @ \o MsgsFor(s.out, "reducer", id)]
        ELSE [alive |-> TRUE,
              inbox |-> MsgsFor(s.out, "reducer", id),
              seed |-> NoSeed,
              left |-> 0,
              object |-> s.reducer_id_to_trait_object[id]]]

\* Where run() is after a step: blocked in the receive, returned from
\* shutdown, or unwound by a panic.  When run() has returned or panicked the
\* process ends, and its actor threads and channels with it.
PcAfter(s) ==
    IF s.panic # "" THEN "panicked"
    ELSE IF s.ret \in {"done", "failed"} THEN s.ret
    ELSE "running"

Install(s) ==
    /\ smallest_interesting' = s.smallest_interesting
    /\ last_iter_size' = s.last_iter_size
    /\ test_case_file' = s.test_case_file
    /\ worker_id_counter' = s.worker_id_counter
    /\ workers' = s.workers
    /\ idle_workers' = s.idle_workers
    /\ reducer_id_counter' = s.reducer_id_counter
    /\ reducer_actors' = s.reducer_actors
    /\ reducer_id_to_trait_object' = s.reducer_id_to_trait_object
    /\ reducers_without_actors' = s.reducers_without_actors
    /\ exhausted_reducers' = s.exhausted_reducers
    /\ reduction_queue' = s.reduction_queue
    /\ sent' = s.out
    /\ logged' = s.log
    /\ panic_msg' = s.panic
    /\ pc' = PcAfter(s)
    /\ worker_actor' = IF PcAfter(s) = "running" THEN DeliverWorkers(s)
                       ELSE <<>>
    /\ reducer_actor' = IF PcAfter(s) = "running" THEN DeliverReducers(s)
                        ELSE <<>>
    /\ UNCHANGED <<logVars, repo>>

\* ------------------------------------------------------------------- Init
\* The logger thread left out of the picture.
LoggerOff ==
    /\ logger_pc = "off"
    /\ logger_smallest_size = 0
    /\ stats = <<>>
    /\ consumed = <<>>
    /\ printed_final_size = 0
    /\ printed_rows = <<>>

\* No workspace in the picture.
NoRepo == [head |-> 0, commits |-> <<>>, index |-> 0, test_case |-> 0,
           returned |-> 0]

SupervisorInit(nw, nr, size) ==
    /\ pc = "start"
    /\ num_workers = nw
    /\ num_reducers = nr
    /\ incoming = <<>>
    /\ smallest_interesting = NoFile
    /\ last_iter_size = 0
    /\ orig_size = 0
    /\ test_case_file = Interesting(size, 0)
    /\ backup_file = NoFile
    /\ worker_id_counter = 0
    /\ workers = {}
    /\ idle_workers = <<>>
    /\ reducer_id_counter = 0
    /\ reducer_actors = {}
    /\ reducer_id_to_trait_object = <<>>
    /\ reducers_without_actors = [i \in 1..num_reducers |-> i]
    /\ exhausted_reducers = {}
    /\ reduction_queue = <<>>
    /\ worker_actor = <<>>
    /\ reducer_actor = <<>>
    /\ sigint_fired = FALSE
    /\ fails = 0
    /\ handled = NoMsg
    /\ sent = <<>>
    /\ logged = <<>>
    /\ panic_msg = ""

InitWith(nw, nr, size) ==
    SupervisorInit(nw, nr, size) /\ LoggerOff /\ repo = NoRepo

Init ==
    \E nw \in 0..MaxWorkers, nr \in 0..MaxReducers :
        /\ nw + nr <= MaxActors
        /\ InitWith(nw, nr, InitialSize)

\* --------------------------------------------------------------- run()
\* Lines 218-229: back up the test case, spawn the reducers, verify that the
\* initial test case is interesting, and enter the first iteration.
verify_initially_interesting(is_interesting) ==
    IF is_interesting THEN test_case_file ELSE NoFile

\* A backup that copies nothing.
backup_original_test_case_none(test_case) == NoFile

\* Lines 579-602: fs::copy of opts.test_case to <test_case>.orig; the result
\* is the contents of the backup.
backup_original_test_case(test_case) == test_case

\* run() verifying only after the reducers were seeded and the workers
\* spawned.
RunFails_late ==
    /\ pc = "start"
    /\ verify_initially_interesting(FALSE) = NoFile
    /\ backup_file' = backup_original_test_case(test_case_file)
    /\ Install([spawn_workers(reseed_reducers(spawn_reducers(Cur)))
                   EXCEPT !.ret = "failed"])
    /\ handled' = NoMsg
    /\ UNCHANGED <<num_workers, num_reducers, incoming, orig_size,
                   sigint_fired, fails>>

RunFails ==
    /\ pc = "start"
    /\ verify_initially_interesting(FALSE) = NoFile
    /\ backup_file' = backup_original_test_case(test_case_file)
    /\ Install([spawn_reducers(Cur) EXCEPT !.ret = "failed"])
    /\ handled' = NoMsg
    /\ UNCHANGED <<num_workers, num_reducers, incoming, orig_size,
                   sigint_fired, fails>>

RunStarts ==
    /\ pc = "start"
    /\ backup_file' = backup_original_test_case(test_case_file)
    /\ LET initial == verify_initially_interesting(TRUE)
           s0 == [spawn_reducers(Cur) EXCEPT
                     !.smallest_interesting = initial,
                     !.last_iter_size = initial.size]
           s == spawn_workers(reseed_reducers(s0))
       IN /\ Install(s)
          /\ orig_size' = initial.size
    /\ handled' = NoMsg
    /\ UNCHANGED <<num_workers, num_reducers, incoming,
                   sigint_fired, fails>>

\* One message of `for msg in incoming`, and whatever run() does before the
\* next receive.
Supervise ==
    /\ pc = "running"
    /\ incoming # <<>>
    /\ \E ahead \in (IF Head(incoming).type = "ReplyNextReduction"
                     THEN Predict(reduction_queue) ELSE {0}) :
          Install(supervisor_step(Cur, Head(incoming), ahead))
    /\ handled' = Head(incoming)
    /\ incoming' = IF pc' = "running" THEN Tail(incoming) ELSE <<>>
    /\ UNCHANGED <<num_workers, num_reducers, orig_size, backup_file,
                   sigint_fired, fails>>

\* The message the receive returns next.
Taking(type) == incoming # <<>> /\ Head(incoming).type = type

OnWorkerErrored ==
    /\ Taking("WorkerErrored")
    /\ Supervise

OnWorkerPanicked ==
    /\ Taking("WorkerPanicked")
    /\ Supervise

OnRequestNextReduction ==
    /\ Taking("RequestNextReduction")
    /\ Supervise

OnReportInteresting ==
    /\ Taking("ReportInteresting")
    /\ Supervise

OnReducerPanicked ==
    /\ Taking("ReducerPanicked")
    /\ Supervise

OnReducerErrored ==
    /\ Taking("ReducerErrored")
    /\ Supervise

OnReplyExhausted ==
    /\ Taking("ReplyExhausted")
    /\ Supervise

OnReplyNextReduction ==
    /\ Taking("ReplyNextReduction")
    /\ Supervise

\* ------------------------------------------------------------ SIGINT actor
\* The SIGINT actor sends GotSigint once, at any moment.  The supervisor
\* takes it behind the messages that were in the channel before it; the
\* messages behind it are never taken, because GotSigint ends the loop.  So
\* the handler can run in any state the supervisor has reached between two
\* messages, and it is modelled there: the message is taken in the step that
\* delivers it.
Sigint ==
    /\ pc = "running"
    /\ ~sigint_fired
    /\ sigint_fired' = TRUE
    /\ Install(supervisor_step(Cur, [type |-> "GotSigint"], 0))
    /\ handled' = [type |-> "GotSigint"]
    /\ incoming' = <<>>
    /\ UNCHANGED <<num_workers, num_reducers, orig_size, backup_file, fails>>

\* ----------------------------------------------------------- worker actors
WorkerSends(w, status, inbox, m) ==
    /\ worker_actor' = [worker_actor EXCEPT
                           ![w] = [status |-> status, inbox |-> inbox]]
    /\ incoming' = Append(incoming, m)
    /\ NotSupervisor
    /\ UNCHANGED <<pc, cfgVars, supVars, reducer_actor, sigint_fired>>

\* A worker thread starts by asking for its first reduction.
WorkerStarts(w) ==
    /\ pc = "running"
    /\ worker_actor[w].status = "fresh"
    /\ WorkerSends(w, "ready", worker_actor[w].inbox,
                   [type |-> "RequestNextReduction", who |-> w])
    /\ UNCHANGED fails

WorkerHas(w, type) ==
    /\ pc = "running"
    /\ worker_actor[w].status = "ready"
    /\ worker_actor[w].inbox # <<>>
    /\ Head(worker_actor[w].inbox).type = type

WorkerJudgesInteresting(w) ==
    /\ WorkerHas(w, "NextReduction")
    /\ LET p == Head(worker_actor[w].inbox)
       IN WorkerSends(w, "ready", Tail(worker_actor[w].inbox),
                      [type |-> "ReportInteresting", who |-> w,
                       size |-> p.size, provenance |-> p.provenance])
    /\ UNCHANGED fails

WorkerJudgesNotInteresting(w) ==
    /\ WorkerHas(w, "NextReduction")
    /\ WorkerSends(w, "ready", Tail(worker_actor[w].inbox),
                   [type |-> "RequestNextReduction", who |-> w])
    /\ UNCHANGED fails

WorkerFails(w) ==
    /\ WorkerHas(w, "NextReduction")
    /\ fails < MaxFails
    /\ fails' = fails + 1
    /\ \E type \in {"WorkerErrored", "WorkerPanicked"} :
          WorkerSends(w, "dead", <<>>, [type |-> type, id |-> w])

WorkerShutsDown(w) ==
    /\ WorkerHas(w, "Shutdown")
    /\ worker_actor' = [worker_actor EXCEPT
                           ![w] = [status |-> "dead", inbox |-> <<>>]]
    /\ NotSupervisor
    /\ UNCHANGED <<pc, cfgVars, supVars, incoming, reducer_actor,
                   sigint_fired, fails>>

\* ---------------------------------------------------------- reducer actors
\* A reducer thread takes its messages in order.  SetSeed and NotInteresting
\* send nothing back, so a step of the thread is its run up to its next send:
\* the silent messages in front of the first RequestNext, then the reply.

\* The reducer's seed and remaining candidates after it has taken the
\* messages ms, none of which is a RequestNext.
RECURSIVE Absorb(_, _)
Absorb(st, ms) ==
    IF ms = <<>> THEN st
    ELSE IF Head(ms).type = "SetSeed"
    THEN Absorb([seed |-> Head(ms).seed, left |-> MaxCands], Tail(ms))
    ELSE Absorb(st, Tail(ms))

\* Position of the first RequestNext in the inbox, 0 if there is none.
FirstRequest(inbox) ==
    IF \E i \in 1..Len(inbox) : inbox[i].type = "RequestNext"
    THEN CHOOSE i \in 1..Len(inbox) :
            /\ inbox[i].type = "RequestNext"
            /\ \A j \in 1..(i - 1) : inbox[j].type # "RequestNext"
    ELSE 0

ReducerCanReply(r) ==
    /\ pc = "running"
    /\ reducer_actor[r].alive
    /\ FirstRequest(reducer_actor[r].inbox) > 0

AtRequest(r) ==
    LET n == FirstRequest(reducer_actor[r].inbox)
    IN Absorb([seed |-> reducer_actor[r].seed, left |-> reducer_actor[r].left],
              SubSeq(reducer_actor[r].inbox, 1, n - 1))

ReducerReplies(r, left, m) ==
    /\ reducer_actor' = [reducer_actor EXCEPT
          ![r].inbox = SubSeq(@, FirstRequest(@) + 1, Len(@)),
          ![r].seed = AtRequest(r).seed,
          ![r].left = left]
    /\ incoming' = Append(incoming, m)
    /\ NotSupervisor
    /\ UNCHANGED <<pc, cfgVars, supVars, worker_actor, sigint_fired,
                   fails>>

\* The candidates a reducer may propose from a seed: smaller than the seed,
\* and not empty.
CandidateSizes(seed) == 1..(seed.size - 1)

ReducerGenerates(r) ==
    /\ ReducerCanReply(r)
    /\ AtRequest(r).left > 0
    /\ \E size \in CandidateSizes(AtRequest(r).seed) :
          ReducerReplies(r, AtRequest(r).left - 1,
                         [type |-> "ReplyNextReduction", reducer |-> r,
                          size |-> size,
                          provenance |-> reducer_actor[r].object])

ReducerExhausted(r) ==
    /\ ReducerCanReply(r)
    /\ ReducerReplies(r, 0, [type |-> "ReplyExhausted", reducer |-> r,
                             seed |-> AtRequest(r).seed])

\* The thread dies on a SetSeed or a RequestNext: everything it has not taken
\* yet is lost with it.
ReducerFails(r) ==
    /\ pc = "running"
    /\ reducer_actor[r].alive
    /\ \E i \in 1..Len(reducer_actor[r].inbox) :
          reducer_actor[r].inbox[i].type \in {"SetSeed", "RequestNext"}
    /\ fails < MaxFails
    /\ fails' = fails + 1
    /\ reducer_actor' = [reducer_actor EXCEPT
                            ![r].alive = FALSE, ![r].inbox = <<>>]
    /\ \E type \in {"ReducerErrored", "ReducerPanicked"} :
          incoming' = Append(incoming, [type |-> type, id |-> r])
    /\ NotSupervisor
    /\ UNCHANGED <<pc, cfgVars, supVars, worker_actor, sigint_fired>>

\* ------------------------------------------------------------------- Next
Next ==
    \/ RunFails
    \/ RunStarts
    \/ OnWorkerErrored
    \/ OnWorkerPanicked
    \/ OnRequestNextReduction
    \/ OnReportInteresting
    \/ OnReducerPanicked
    \/ OnReducerErrored
    \/ OnReplyExhausted
    \/ OnReplyNextReduction
    \/ Sigint
    \/ \E w \in DOMAIN worker_actor : WorkerStarts(w)
    \/ \E w \in DOMAIN worker_actor : WorkerJudgesInteresting(w)
    \/ \E w \in DOMAIN worker_actor : WorkerJudgesNotInteresting(w)
    \/ \E w \in DOMAIN worker_actor : WorkerFails(w)
    \/ \E w \in DOMAIN worker_actor : WorkerShutsDown(w)
    \/ \E r \in DOMAIN reducer_actor : ReducerGenerates(r)
    \/ \E r \in DOMAIN reducer_actor : ReducerExhausted(r)
    \/ \E r \in DOMAIN reducer_actor : ReducerFails(r)

Spec == Init /\ [][Next]_vars

\* A run that never sees an interrupt or a worker failure, with one worker,
\* two reducers and an initial test case large enough for two promotions to
\* pass over a queued Potential: the configuration in which a reducer that
\* failed with a Potential queued is respawned while that Potential waits.
RespawnSize == 4

RespawnInit == InitWith(1, 2, RespawnSize)

RespawnNext ==
    \/ RunStarts
    \/ OnRequestNextReduction
    \/ OnReportInteresting
    \/ OnReducerPanicked
    \/ OnReducerErrored
    \/ OnReplyExhausted
    \/ OnReplyNextReduction
    \/ \E w \in DOMAIN worker_actor : WorkerStarts(w)
    \/ \E w \in DOMAIN worker_actor : WorkerJudgesInteresting(w)
    \/ \E w \in DOMAIN worker_actor : WorkerJudgesNotInteresting(w)
    \/ \E w \in DOMAIN worker_actor : WorkerShutsDown(w)
    \/ \E r \in DOMAIN reducer_actor : ReducerGenerates(r)
    \/ \E r \in DOMAIN reducer_actor : ReducerExhausted(r)
    \/ \E r \in DOMAIN reducer_actor : ReducerFails(r)

RespawnSpec == RespawnInit /\ [][RespawnNext]_vars

\* Trivial convergence: one reducer that proposes its seed with one trailing
\* byte removed, a predicate that accepts exactly the files of size >= 1,
\* one or two workers, no failure and no interrupt.
ConvergeSize == 4

ConvergeInit ==
    \E nw \in 1..MaxWorkers : InitWith(nw, 1, ConvergeSize)

\* The predicate: file size >= 1.
ChopPredicate(size) == size >= 1

ChopWorkerAccepts(w) ==
    /\ WorkerHas(w, "NextReduction")
    /\ ChopPredicate(Head(worker_actor[w].inbox).size)
    /\ WorkerJudgesInteresting(w)

ChopWorkerRejects(w) ==
    /\ WorkerHas(w, "NextReduction")
    /\ ~ChopPredicate(Head(worker_actor[w].inbox).size)
    /\ WorkerJudgesNotInteresting(w)

\* The reducer's proposal for a seed: the seed less its last byte.
ChopCandidate(seed) == seed.size - 1

\* The reducer proposes its candidate at least once per seed (the same
\* candidate again when asked again, up to MaxCands times).
ChopReducerGenerates(r) ==
    /\ ReducerCanReply(r)
    /\ AtRequest(r).left > 0
    /\ ReducerReplies(r, AtRequest(r).left - 1,
                      [type |-> "ReplyNextReduction", reducer |-> r,
                       size |-> ChopCandidate(AtRequest(r).seed),
                       provenance |-> reducer_actor[r].object])

\* It is exhausted once it has proposed the candidate of its seed; from a
\* seed of one byte it may also have nothing to propose.
ChopReducerExhausted(r) ==
    /\ ReducerCanReply(r)
    /\ \/ AtRequest(r).left < MaxCands
       \/ AtRequest(r).seed.size = 1
    /\ ReducerReplies(r, 0, [type |-> "ReplyExhausted", reducer |-> r,
                             seed |-> AtRequest(r).seed])

ConvergeNext ==
    \/ RunStarts
    \/ OnRequestNextReduction
    \/ OnReportInteresting
    \/ OnReplyExhausted
    \/ OnReplyNextReduction
    \/ \E w \in DOMAIN worker_actor : WorkerStarts(w)
    \/ \E w \in DOMAIN worker_actor : ChopWorkerAccepts(w)
    \/ \E w \in DOMAIN worker_actor : ChopWorkerRejects(w)
    \/ \E w \in DOMAIN worker_actor : WorkerShutsDown(w)
    \/ \E r \in DOMAIN reducer_actor : ChopReducerGenerates(r)
    \/ \E r \in DOMAIN reducer_actor : ChopReducerExhausted(r)

ConvergeSpec == ConvergeInit /\ [][ConvergeNext]_vars

\* ------------------------------------------------------------ the logger
\* Logger::run (logger.rs:323-417) fed with a stream of log messages that a
\* run can produce: the supervisor's NewSmallest sizes decrease from the
\* original size, and its FinalReducedSize carries the size of its smallest
\* and is its last message.
MaxLog == 4

LogOrigSize == 3

\* The provenances, in the key order of the BTreeMap.
LogProvenances == <<"chunks", "lines", "merge">>

\* Sizes a merge is reported with.
MergeSizes == 1..2

NoCounts == <<0, 0, 0>>

\* stats.entry(provenance).or_insert((0, 0, 0)).k += 1
Bump(st, provenance, k) ==
    [p \in (DOMAIN st) \cup {provenance} |->
        IF p = provenance
        THEN [(IF p \in DOMAIN st THEN st[p] ELSE NoCounts) EXCEPT ![k] = @ + 1]
        ELSE st[p]]

\* FinishedMerging counting only merges that grew.
MergeIsCounted_gt(merged_size, upstream_size) == merged_size > upstream_size

\* line 363: the guard of the FinishedMerging arm
MergeIsCounted(merged_size, upstream_size) == merged_size >= upstream_size

\* lines 337-367: the match on one log message; l is the pair of
\* smallest_size and stats.
LoggerHandle(l, log_msg) ==
    IF log_msg.type = "NewSmallest"
    THEN [smallest_size |-> log_msg.new_size,
          stats |-> Bump(l.stats, log_msg.provenance, 1)]
    ELSE IF log_msg.type = "IsNotSmaller"
    THEN [l EXCEPT !.stats = Bump(@, log_msg.provenance, 2)]
    ELSE IF log_msg.type = "JudgedNotInteresting"
    THEN [l EXCEPT !.stats = Bump(@, log_msg.provenance, 3)]
    ELSE IF /\ log_msg.type = "FinishedMerging"
            /\ MergeIsCounted(log_msg.merged_size, log_msg.upstream_size)
    THEN [l EXCEPT !.stats = Bump(@, "merge", 3)]
    ELSE l

\* usize::cmp
Cmp(a, b) == IF a < b THEN "Less" ELSE IF a = b THEN "Equal" ELSE "Greater"

\* A comparator that lets the last counter decide first.
StatsOrdering_last(s, t) ==
    IF s[3] # t[3] THEN Cmp(s[3], t[3])
    ELSE IF s[2] # t[2] THEN Cmp(s[2], t[2])
    ELSE Cmp(s[1], t[1])

\* lines 379-385: the comparator of stats.sort_by
StatsOrdering(s, t) ==
    LET o0 == Cmp(s[1], t[1])
        o1 == Cmp(s[2], t[2])
        o2 == Cmp(s[3], t[3])
    IN IF o0 = "Equal" /\ o1 = "Equal" THEN o2
       ELSE IF o0 = "Equal" THEN o1
       ELSE o0

\* One row into an ascending list, behind the rows it does not precede:
\* sort_by is stable.
RECURSIVE SortInsert(_, _)
SortInsert(sorted, row) ==
    IF sorted = <<>> THEN <<row>>
    ELSE IF StatsOrdering(row.counts, Head(sorted).counts) = "Less"
    THEN <<row>> \o sorted
    ELSE <<Head(sorted)>> \o SortInsert(Tail(sorted), row)

RECURSIVE SortBy(_)
SortBy(rows) ==
    IF rows = <<>> THEN <<>>
    ELSE SortInsert(SortBy(SubSeq(rows, 1, Len(rows) - 1)), rows[Len(rows)])

Reverse(seq) == [i \in 1..Len(seq) |-> seq[Len(seq) + 1 - i]]

\* line 377: stats.into_iter().collect(), in key order
StatsVec(st) ==
    LET keys == SelectSeq(LogProvenances, LAMBDA p : p \in DOMAIN st)
    IN [i \in 1..Len(keys) |-> [reducer |-> keys[i], counts |-> st[keys[i]]]]

\* lines 377-386: the rows as they are printed
Histogram(st) == Reverse(SortBy(StatsVec(st)))

\* The size of the supervisor's smallest, as far as the stream tells.
RECURSIVE StreamSmallest(_)
StreamSmallest(ms) ==
    IF ms = <<>> THEN LogOrigSize
    ELSE IF ms[Len(ms)].type = "NewSmallest" THEN ms[Len(ms)].new_size
    ELSE StreamSmallest(SubSeq(ms, 1, Len(ms) - 1))

FinalSent(ms) == \E i \in 1..Len(ms) : ms[i].type = "FinalReducedSize"

\* The log messages that can come next.
NextLogMessages(ms) ==
    IF FinalSent(ms) THEN {[type |-> "ShutdownReducer"]}
    ELSE {[type |-> "NewSmallest", new_size |-> n, orig_size |-> LogOrigSize,
           provenance |-> p] :
              n \in 1..(StreamSmallest(ms) - 1), p \in Range(LogProvenances)}
         \cup {[type |-> ty, provenance |-> p] :
              ty \in {"IsNotSmaller", "JudgedNotInteresting"},
              p \in Range(LogProvenances)}
         \cup {[type |-> "FinishedMerging", merged_size |-> m,
                upstream_size |-> u] : m \in MergeSizes, u \in MergeSizes}
         \cup {[type |-> "ShutdownReducer"]}
         \cup {[type |-> "FinalReducedSize",
                final_size |-> StreamSmallest(ms), orig_size |-> LogOrigSize]}

LoggerInit ==
    /\ SupervisorInit(0, 0, InitialSize)
    /\ logger_pc = "logging"
    /\ logger_smallest_size = 0
    /\ stats = <<>>
    /\ consumed = <<>>
    /\ printed_final_size = 0
    /\ printed_rows = <<>>
    /\ repo = NoRepo

\* One pass of `for log_msg in incoming`.
LoggerReceives ==
    /\ logger_pc = "logging"
    /\ Len(consumed) < MaxLog
    /\ \E log_msg \in NextLogMessages(consumed) :
          LET l == LoggerHandle([smallest_size |-> logger_smallest_size,
                                 stats |-> stats], log_msg)
          IN /\ logger_smallest_size' = l.smallest_size
             /\ stats' = l.stats
             /\ consumed' = Append(consumed, log_msg)
    /\ UNCHANGED <<logger_pc, printed_final_size, printed_rows>>
    /\ UNCHANGED <<pc, cfgVars, supVars, incoming, worker_actor,
                   reducer_actor, sigint_fired, fails, handled, sent, logged,
                   repo>>

\* The channel closes: lines 372-416.
LoggerCloses ==
    /\ logger_pc = "logging"
    /\ logger_pc' = "closed"
    /\ printed_final_size' = logger_smallest_size
    /\ printed_rows' = Histogram(stats)
    /\ UNCHANGED <<logger_smallest_size, stats, consumed>>
    /\ UNCHANGED <<pc, cfgVars, supVars, incoming, worker_actor,
                   reducer_actor, sigint_fired, fails, handled, sent, logged,
                   repo>>

LoggerNext == LoggerReceives \/ LoggerCloses

LoggerSpec == LoggerInit /\ [][LoggerNext]_vars

\* ------------------------------------------------------------ workspaces
\* git.rs: a repository holding the one file test_case.  A tree is the
\* contents it records for test_case; a commit is its parent, its tree and
\* its message; a commit's id is its position in `commits`.
MaxCommits == 4

FileContents == 1..3

CommitMessages == {"interesting", "merge"}

\* lines 38-43
head_id(r) == r.head

\* lines 45-49
head_commit(r) == r.commits[head_id(r)]

\* lines 51-55
head_tree(r) == head_commit(r).tree

\* lines 57-67: index.add_path stages the file; the commit is made of HEAD's
\* commit as parent and of the tree of line 63, and HEAD is moved to it.
commit_test_case(r, msg) ==
    LET index == r.test_case
        head == head_id(r)
        tree == head_tree(r)
        commit_id == Len(r.commits) + 1
    IN [r EXCEPT !.index = index,
                 !.commits = Append(@, [parent |-> head, tree |-> tree,
                                        msg |-> msg]),
                 !.head = commit_id,
                 !.returned = commit_id]

\* A fresh workspace: one commit, holding test_case as it is on disk.
GitInit ==
    /\ SupervisorInit(0, 0, InitialSize)
    /\ LoggerOff
    /\ \E c \in FileContents :
          repo = [head |-> 1,
                  commits |-> <<[parent |-> 0, tree |-> c, msg |-> "initial"]>>,
                  index |-> c, test_case |-> c, returned |-> 0]

GitNotElsewhere ==
    UNCHANGED <<pc, cfgVars, supVars, incoming, worker_actor, reducer_actor,
                sigint_fired, fails, handled, sent, logged, logVars>>

\* The owner of the workspace writes test_case.
WriteTestCase ==
    /\ \E c \in FileContents : repo' = [repo EXCEPT !.test_case = c]
    /\ repo' # repo
    /\ GitNotElsewhere

CommitTestCase ==
    /\ Len(repo.commits) < MaxCommits
    /\ \E msg \in CommitMessages : repo' = commit_test_case(repo, msg)
    /\ GitNotElsewhere

GitNext == WriteTestCase \/ CommitTestCase

GitSpec == GitInit /\ [][GitNext]_vars

\* ================================================================ claims
AtBoundary == pc = "running"

ShutdownPanics ==
    {"shutdown: workers.is_empty()",
     "shutdown: reduction_queue.is_empty()",
     "shutdown: exhausted_reducers.len() == reducer_actors.len()"}

\* How many messages of this type the supervisor sent to this actor.
CountSent(out, kind, id, type) ==
    Cardinality({i \in 1..Len(out) :
        out[i].to = kind /\ out[i].id = id /\ out[i].msg.type = type})

CountLogged(log, type) ==
    Cardinality({i \in 1..Len(log) : log[i].type = type})

\* C1: between two messages the smallest interesting test case is replaced
\* (and NewSmallest logged) only by a ReportInteresting whose test case is
\* strictly smaller than it, by that test case; its size never grows.
C1_SmallestOnlyShrinks ==
    [][AtBoundary =>
        /\ smallest_interesting'.size <= smallest_interesting.size
        /\ (smallest_interesting' # smallest_interesting
              \/ CountLogged(logged', "NewSmallest") > 0) =>
              /\ handled'.type = "ReportInteresting"
              /\ handled'.size < smallest_interesting.size
              /\ smallest_interesting' =
                    Interesting(handled'.size, handled'.provenance)
              /\ CountLogged(logged', "NewSmallest") = 1]_vars

\* C1 witness: a report of the size of the current smallest was handled and
\* did not replace it.
C1_Witness ==
    /\ handled.type = "ReportInteresting"
    /\ handled.size = smallest_interesting.size
    /\ CountLogged(logged, "IsNotSmaller") = 1
    /\ CountLogged(logged, "NewSmallest") = 0

AllLiveExhausted ==
    /\ AtBoundary
    /\ num_workers >= 1
    /\ exhausted_reducers = reducer_actors

\* C2: once every live reducer has replied Exhausted for the current seed,
\* and as long as no promotion intervenes, the supervisor goes on receiving
\* until it has completed shutdown: no message it then handles ends run() in
\* another way.  (What a terminating run must satisfy at each of its steps.)
C2_ExhaustedLeadsToShutdown ==
    [][(AllLiveExhausted /\ CountLogged(logged', "NewSmallest") = 0) =>
        pc' \in {"running", "done"}]_vars

\* C3: an interrupt ends in a normal shutdown, whatever the reducers were
\* doing: shutdown's assertions pass.
C3_InterruptShutsDownNormally ==
    handled.type = "GotSigint" => pc = "done"

\* C4: GotSigint sends Shutdown to every registered worker and to nobody
\* else, empties the registry and the queue, leaves the smallest alone and
\* takes run() to shutdown without another receive, even when the smallest
\* shrank during the iteration.
C4_InterruptStops ==
    [][handled'.type = "GotSigint" =>
        /\ workers' = {}
        /\ reduction_queue' = <<>>
        /\ smallest_interesting' = smallest_interesting
        /\ \A w \in DOMAIN worker_actor :
              CountSent(sent', "worker", w, "Shutdown") =
                  IF w \in workers THEN 1 ELSE 0
        /\ \A i \in 1..Len(sent') : sent'[i].msg.type = "Shutdown"
        /\ pc' \in {"done", "panicked"}
        /\ panic_msg' \in ShutdownPanics \cup {""}]_vars

\* C4 witness: an interrupt was handled after the smallest had shrunk in
\* this iteration, with workers to shut down.
C4_Witness ==
    /\ handled.type = "GotSigint"
    /\ smallest_interesting.size < last_iter_size
    /\ \E i \in 1..Len(sent) : sent[i].to = "worker"

\* C5: a ReplyExhausted marks its reducer exhausted exactly if its seed is
\* the current smallest; with another seed the reducer stays unmarked and is
\* sent one RequestNext, and no other.
C5_ExhaustedOnlyForCurrentSeed ==
    [][(AtBoundary /\ Taking("ReplyExhausted") /\ handled' = Head(incoming)) =>
        LET m == Head(incoming)
            h == reply_exhausted(Cur, m.reducer, m.seed)
        IN /\ h.panic = ""
           /\ m.reducer \in h.exhausted_reducers
                 <=> m.seed = smallest_interesting
           /\ m.seed = smallest_interesting => h.out = <<>>
           /\ m.seed # smallest_interesting =>
                 /\ m.reducer \notin exhausted_reducers'
                 /\ h.out = <<ToReducer(m.reducer, MsgRequestNext)>>
                 /\ CountSent(sent', "reducer", m.reducer, "RequestNext") = 1
       ]_vars

\* C5 witness: a ReplyExhausted for a seed that is no longer the smallest was
\* answered with a RequestNext.
C5_Witness ==
    /\ handled.type = "ReplyExhausted"
    /\ handled.seed # smallest_interesting
    /\ handled.reducer \notin exhausted_reducers
    /\ CountSent(sent, "reducer", handled.reducer, "RequestNext") = 1

\* C6: between two messages every exhausted reducer is a live reducer actor.
C6_ExhaustedAreLive ==
    AtBoundary => exhausted_reducers \subseteq reducer_actors

\* C6 witness: a reducer died while another one was exhausted.
C6_Witness ==
    /\ AtBoundary
    /\ handled.type \in {"ReducerPanicked", "ReducerErrored"}
    /\ exhausted_reducers # {}

\* C7: between two messages the queue is no longer than the number of
\* configured reducers and holds at most one Potential per reducer id.
C7_QueueBounded ==
    AtBoundary =>
        /\ Len(reduction_queue) <= num_reducers
        /\ \A i, j \in 1..Len(reduction_queue) :
              i # j => reduction_queue[i].reducer # reduction_queue[j].reducer

PendingNextReduction(w) ==
    /\ w \in DOMAIN worker_actor
    /\ \E k \in 1..Len(worker_actor[w].inbox) :
          worker_actor[w].inbox[k].type = "NextReduction"

ResultInFlight(w) ==
    \E k \in 1..Len(incoming) :
        /\ incoming[k].type \in {"ReportInteresting", "RequestNextReduction",
                                 "WorkerErrored", "WorkerPanicked"}
        /\ (IF incoming[k].type \in {"WorkerErrored", "WorkerPanicked"}
            THEN incoming[k].id ELSE incoming[k].who) = w

\* C8: between two messages no worker id is twice in idle_workers, and no
\* idle worker has a NextReduction it has not answered or an answer that the
\* supervisor has not handled.
C8_IdleWorkersAreIdle ==
    AtBoundary =>
        /\ \A i, j \in 1..Len(idle_workers) :
              i # j => idle_workers[i] # idle_workers[j]
        /\ \A i \in 1..Len(idle_workers) :
              /\ ~PendingNextReduction(idle_workers[i])
              /\ ~ResultInFlight(idle_workers[i])

\* C8 witness: one worker is idle while another one has a NextReduction to
\* evaluate.
C8_Witness ==
    /\ AtBoundary
    /\ idle_workers # <<>>
    /\ \E w \in workers : PendingNextReduction(w)

SentNextReduction(out, e) ==
    \E k \in 1..Len(out) :
        /\ out[k].to = "worker"
        /\ out[k].msg = MsgNextReduction(e)

\* C9: a promotion to size new removes every queued Potential of size >= new
\* and sends its reducer exactly one RequestNext; every smaller one stays
\* queued or is dispatched by the drain that ends the handler; afterwards no
\* queued Potential has size >= new.
C9_PromotionPrunes ==
    [][(/\ AtBoundary
        /\ Taking("ReportInteresting")
        /\ handled' = Head(incoming)
        /\ Head(incoming).size < smallest_interesting.size) =>
        LET new == Head(incoming).size
            q == reduction_queue
        IN /\ \A i \in 1..Len(reduction_queue') :
                 reduction_queue'[i].size < new
           /\ \A i \in 1..Len(q) :
                 IF q[i].size >= new
                 THEN CountSent(sent', "reducer", q[i].reducer,
                                "RequestNext") = 1
                 ELSE \/ q[i] \in Range(reduction_queue')
                      \/ SentNextReduction(sent', q[i])]_vars

\* C10: a ReplyNextReduction is queued exactly if it is smaller than the
\* smallest (then it is in the queue, or already dispatched by the drain that
\* follows the insertion, unless that drain's assertion on another entry
\* fails); otherwise the queue is unchanged and its reducer is sent
\* NotInteresting and then one RequestNext, and nothing else is sent.
C10_QueuedIffSmaller ==
    [][(AtBoundary /\ Taking("ReplyNextReduction")
            /\ handled' = Head(incoming)) =>
        LET m == Head(incoming)
            e == [size |-> m.size, provenance |-> m.provenance,
                  reducer |-> m.reducer]
        IN IF m.size < smallest_interesting.size
           THEN /\ CountSent(sent', "reducer", m.reducer, "NotInteresting") = 0
                /\ \/ e \in Range(reduction_queue')
                   \/ SentNextReduction(sent', e)
                   \/ panic_msg' =
                        "drain_queues: reducer_actors.contains_key(reducer_id)"
           ELSE /\ reduction_queue' = reduction_queue
                /\ sent' = <<ToReducer(m.reducer, MsgNotInteresting(m.size)),
                             ToReducer(m.reducer, MsgRequestNext)>>]_vars

\* C10 witness: a reduction of exactly the size of the smallest was answered
\* with NotInteresting.
C10_Witness ==
    /\ handled.type = "ReplyNextReduction"
    /\ handled.size = smallest_interesting.size
    /\ CountSent(sent, "reducer", handled.reducer, "NotInteresting") = 1

\* C11: a ReducerPanicked/ReducerErrored step takes the id out of the live
\* reducer actors and puts its reducer object into the pool; a pooled object
\* gets an actor again only in a step that reseeds, under an id no reducer
\* had before; and whenever the supervisor waits for a message the live
\* actors and the pooled objects together are the configured reducers.
C11_ReducerRespawn ==
    [][/\ pc' = "running" =>
            Cardinality(reducer_actors') + Len(reducers_without_actors')
                = num_reducers
       /\ AtBoundary =>
            /\ (\E i \in 1..Len(sent') : sent'[i].msg.type = "SetSeed") =>
                  reducers_without_actors' = <<>>
            /\ \A n \in reducer_actors' \ reducer_actors :
                  /\ n >= reducer_id_counter
                  /\ n < reducer_id_counter'
                  /\ CountSent(sent', "reducer", n, "SetSeed") = 1
                  /\ \/ reducer_id_to_trait_object'[n]
                            \in Range(reducers_without_actors)
                     \/ /\ handled'.type \in {"ReducerPanicked", "ReducerErrored"}
                        /\ reducer_id_to_trait_object'[n]
                              = reducer_id_to_trait_object[handled'.id]
            /\ handled'.type \in {"ReducerPanicked", "ReducerErrored"} =>
                  LET id == handled'.id
                      obj == reducer_id_to_trait_object[id]
                  IN /\ id \in reducer_actors
                     /\ id \notin reducer_actors'
                     /\ id \notin DOMAIN reducer_id_to_trait_object'
                     /\ \/ obj \in Range(reducers_without_actors')
                        \/ \E n \in reducer_actors' \ reducer_actors :
                              reducer_id_to_trait_object'[n] = obj]_vars

\* C11 witness: a reducer that failed earlier has been respawned under a new
\* id by the reseed of a promotion, and the supervisor waits for a message.
C11_Witness ==
    /\ AtBoundary
    /\ handled.type = "ReportInteresting"
    /\ \E n \in reducer_actors : n >= num_reducers
    /\ reducers_without_actors = <<>>
    /\ fails > 0

\* C12: a ReducerPanicked/ReducerErrored step taken while workers are
\* registered, with the termination check that follows the arm, sends
\* Shutdown to no worker, removes none from the
\* registry, and leaves the supervisor receiving.
C12_ReducerFailureKeepsWorkers ==
    [][(/\ AtBoundary
        /\ workers # {}
        /\ handled'.type \in {"ReducerPanicked", "ReducerErrored"}) =>
        /\ workers' = workers
        /\ \A i \in 1..Len(sent') : sent'[i].to # "worker"
        /\ pc' = "running"]_vars

\* C13: a WorkerPanicked/WorkerErrored step removes the id from the
\* registry and tops the registry up to exactly the configured number of
\* workers, every new id being one no worker had before; the step changes
\* neither the smallest, nor the queue, nor the exhausted reducers; and the
\* registry never holds more than the configured number of workers.
C13_WorkerRestart ==
    [][/\ Cardinality(workers') <= num_workers
       /\ (AtBoundary /\ handled'.type \in {"WorkerPanicked", "WorkerErrored"}) =>
            LET id == handled'.id
                h == restart_worker(Cur, id)
            IN /\ id \in workers
               /\ h.panic = ""
               /\ Cardinality(h.workers) = num_workers
               /\ id \notin h.workers
               /\ id \notin workers'
               /\ workers' \subseteq h.workers
               /\ \A n \in workers' \ workers :
                     n >= worker_id_counter /\ n < worker_id_counter'
               /\ workers' \ workers # {}
               /\ smallest_interesting' = smallest_interesting
               /\ reduction_queue' = reduction_queue
               /\ exhausted_reducers' = exhausted_reducers
               /\ pc' = "running"]_vars

\* C13 witness: a failed worker has been replaced and the registry is full
\* again, with a worker id beyond the first N.
C13_Witness ==
    /\ AtBoundary
    /\ handled.type \in {"WorkerPanicked", "WorkerErrored"}
    /\ handled.id \notin workers
    /\ Cardinality(workers) = num_workers
    /\ \E n \in workers : n >= num_workers

\* C14: with zero workers configured run() goes from verifying the initial
\* test case straight to a completed shutdown: it never waits in the receive
\* and is never stopped by an assertion.
C14_ZeroWorkersShutsDown ==
    num_workers = 0 => pc \in {"start", "failed", "done"}

\* C15: with no reducer and at least one worker configured, the exhausted
\* set, the queue and idle_workers are empty whenever the supervisor waits;
\* handling a worker's RequestNextReduction shuts that worker down and takes
\* it out of the registry; when that empties the registry the iteration
\* returns `true` and run() completes shutdown; and the run ends with the
\* initial test case as the smallest.
C15_ZeroReducers ==
    [][(num_reducers = 0 /\ num_workers >= 1) =>
        /\ pc' = "running" =>
              /\ exhausted_reducers' = {}
              /\ reduction_queue' = <<>>
              /\ idle_workers' = <<>>
        /\ pc' # "panicked"
        /\ pc' = "failed" => pc = "start"
        /\ pc' = "done" =>
              /\ smallest_interesting' = Interesting(InitialSize, 0)
              /\ workers' = {}
        /\ (AtBoundary /\ handled'.type = "RequestNextReduction") =>
              LET who == handled'.who
                  h == handle_message(Cur, handled', 0)
              IN /\ who \in workers
                 /\ workers' = workers \ {who}
                 /\ sent' = <<ToWorker(who, MsgShutdown)>>
                 /\ IF workers' = {}
                    THEN h.ret = "true" /\ pc' = "done"
                    ELSE h.ret = "recv" /\ pc' = "running"]_vars

\* C15 witness: two workers and no reducer; the second worker's first
\* request was handled and the run is over.
C15_Witness ==
    /\ num_reducers = 0
    /\ num_workers = 2
    /\ handled.type = "RequestNextReduction"
    /\ worker_id_counter = 2
    /\ pc = "done"

\* Nothing was promoted, nothing failed and no interrupt came so far.
NothingInteresting ==
    /\ AtBoundary
    /\ num_workers >= 1
    /\ smallest_interesting = Interesting(InitialSize, 0)
    /\ fails = 0
    /\ ~sigint_fired

ActorCanAct ==
    \/ \E w \in DOMAIN worker_actor :
          \/ worker_actor[w].status = "fresh"
          \/ worker_actor[w].status = "ready" /\ worker_actor[w].inbox # <<>>
    \/ \E r \in DOMAIN reducer_actor :
          reducer_actor[r].alive /\ FirstRequest(reducer_actor[r].inbox) > 0

\* C16: as long as no worker has reported anything interesting (and nothing
\* has failed or interrupted the run), every message the supervisor handles
\* leaves the smallest and the test case file alone, reseeds no reducer (the
\* first outer-loop iteration is the only one) and ends either in the
\* receive, with a message or an actor at work to wait for, or in a
\* completed shutdown with every reducer exhausted and the initial test case
\* as the smallest.
C16_NothingInteresting ==
    [][(/\ NothingInteresting
        /\ handled'.type \notin {"None", "ReportInteresting", "GotSigint"}) =>
        /\ smallest_interesting' = smallest_interesting
        /\ test_case_file' = Interesting(InitialSize, 0)
        /\ last_iter_size' = InitialSize
        /\ \A i \in 1..Len(sent') : sent'[i].msg.type # "SetSeed"
        /\ pc' \in {"running", "done"}
        /\ pc' = "running" => (incoming' # <<>> \/ ActorCanAct')
        /\ pc' = "done" =>
              /\ workers' = {}
              /\ exhausted_reducers' = reducer_actors'
              /\ Cardinality(reducer_actors') = num_reducers
              /\ worker_id_counter' = num_workers
              /\ CountLogged(logged', "FinalReducedSize") = 1]_vars

\* C16 witness: a run with two reducers ended in shutdown with the initial
\* test case as the smallest, after a worker's request was the last message.
C16_Witness ==
    /\ pc = "done"
    /\ num_reducers = 2
    /\ num_workers >= 1
    /\ smallest_interesting = Interesting(InitialSize, 0)
    /\ test_case_file = Interesting(InitialSize, 0)
    /\ fails = 0
    /\ ~sigint_fired
    /\ handled.type = "RequestNextReduction"

\* C17: handling a ReportInteresting that is not smaller than the smallest
\* leaves the smallest, the test case file, the exhausted reducers, the live
\* reducers and the worker registry as they were and sends no SetSeed; it
\* logs IsNotSmaller, appends the reporting worker to idle_workers and
\* drains: what it sends are the NextReductions of that dispatch and the
\* RequestNexts that go with them.
C17_NotSmallerReport ==
    [][(/\ AtBoundary
        /\ Taking("ReportInteresting")
        /\ handled' = Head(incoming)
        /\ Head(incoming).size >= smallest_interesting.size) =>
        LET m == Head(incoming)
            h == handle_new_interesting_test_case(Cur, m.who,
                     Interesting(m.size, m.provenance))
            n == Cardinality({i \in 1..Len(h.out) :
                     h.out[i].msg.type = "NextReduction"})
            all == Append(idle_workers, m.who)
        IN /\ smallest_interesting' = smallest_interesting
           /\ test_case_file' = test_case_file
           /\ h.smallest_interesting = smallest_interesting
           /\ h.test_case_file = test_case_file
           /\ h.exhausted_reducers = exhausted_reducers
           /\ h.reducer_actors = reducer_actors
           /\ h.reducers_without_actors = reducers_without_actors
           /\ h.workers = workers
           /\ h.log = <<[type |-> "IsNotSmaller", provenance |-> m.provenance]>>
           /\ \A i \in 1..Len(h.out) :
                 \/ h.out[i].to = "worker" /\ h.out[i].msg.type = "NextReduction"
                 \/ h.out[i].to = "reducer" /\ h.out[i].msg.type = "RequestNext"
           /\ h.panic = "" =>
                 /\ n = Min(Len(all), Len(reduction_queue))
                 /\ h.idle_workers = SubSeq(all, n + 1, Len(all))
                 /\ h.reduction_queue = SubSeq(reduction_queue, n + 1,
                                               Len(reduction_queue))
           /\ pc' = "running" /\ last_iter_size' = last_iter_size =>
                 /\ exhausted_reducers' = exhausted_reducers
                 /\ reducer_actors' = reducer_actors
                 /\ \A i \in 1..Len(sent') : sent'[i].msg.type # "SetSeed"
       ]_vars

\* C17 witness: after a race of two workers the larger test case was
\* reported second, logged IsNotSmaller, and its worker is idle again.
C17_Witness ==
    /\ AtBoundary
    /\ handled.type = "ReportInteresting"
    /\ handled.size > smallest_interesting.size
    /\ CountLogged(logged, "IsNotSmaller") = 1
    /\ handled.who \in Range(idle_workers)

\* C18: the backup is written by the one step that leaves "start", with the
\* contents the test case file has before any reducer is seeded, any worker
\* is spawned or any promotion has happened; no later step writes it, so
\* after every step, shutdown and interrupt included, the backup is the
\* original input.
C18_BackupWrittenOnce ==
    [][/\ pc = "start" =>
            /\ backup_file = NoFile
            /\ test_case_file = Interesting(InitialSize, 0)
            /\ workers = {} /\ reducer_actors = {} /\ sent = <<>>
            /\ smallest_interesting = NoFile
            /\ pc' # "start"
       /\ pc # "start" => backup_file' = backup_file
       /\ backup_file' = Interesting(InitialSize, 0)
      ]_vars

\* C18 witness: a run that promoted a smaller test case into the test case
\* file and shut down, the backup still holding the original input.
C18_Witness ==
    /\ pc = "done"
    /\ test_case_file.size < InitialSize
    /\ test_case_file.provenance # 0
    /\ backup_file = Interesting(InitialSize, 0)

\* C19: the test case file changes only in a step that handles a
\* ReportInteresting smaller than the smallest, every such step writes the
\* reported test case into it and logs one NewSmallest, and whenever run()
\* is past its start and has not failed the file holds the smallest
\* interesting test case.
C19_TestCaseFileIsSmallest ==
    [][LET promotes ==
               /\ AtBoundary
               /\ Taking("ReportInteresting")
               /\ handled' = Head(incoming)
               /\ Head(incoming).size < smallest_interesting.size
       IN /\ test_case_file' # test_case_file => promotes
          /\ promotes =>
                /\ test_case_file' = Interesting(Head(incoming).size,
                                                 Head(incoming).provenance)
                /\ test_case_file' # test_case_file
                /\ CountLogged(logged', "NewSmallest") = 1
          /\ ~promotes => CountLogged(logged', "NewSmallest") = 0
          /\ pc' \in {"running", "done", "panicked"} =>
                test_case_file' = smallest_interesting'
      ]_vars

\* C19 witness: a promotion below InitialSize - 1 has just been handled; the
\* file holds it and the supervisor is back at its receive.
C19_Witness ==
    /\ AtBoundary
    /\ handled.type = "ReportInteresting"
    /\ CountLogged(logged, "NewSmallest") = 1
    /\ test_case_file = Interesting(handled.size, handled.provenance)
    /\ test_case_file.size < InitialSize - 1

\* C20: run() fails only from its start, when the initial test case is not
\* interesting; the failing step spawns no worker, sends no message (so no
\* reducer gets SetSeed or RequestNext), handles no supervisor message,
\* leaves the test case file as the original input and sets no smallest;
\* nothing happens after it.
C20_InitialNotInteresting ==
    [][/\ pc # "failed"
       /\ pc' = "failed" =>
             /\ pc = "start"
             /\ workers' = {} /\ worker_id_counter' = 0
             /\ idle_workers' = <<>>
             /\ sent' = <<>>
             /\ handled' = NoMsg /\ incoming' = <<>>
             /\ logged' = <<>>
             /\ test_case_file' = Interesting(InitialSize, 0)
             /\ smallest_interesting' = NoFile
             /\ reduction_queue' = <<>>
             /\ worker_actor' = <<>> /\ reducer_actor' = <<>>
      ]_vars

\* C20 witness: a failed run configured with workers and reducers; the
\* reducers were spawned (line 219 precedes the verification) but not seeded.
C20_Witness ==
    /\ pc = "failed"
    /\ num_workers > 0 /\ num_reducers > 0
    /\ Cardinality(reducer_actors) = num_reducers
    /\ workers = {}
    /\ backup_file = test_case_file

\* C21: in every reachable supervisor state, reseeding twice in a row leaves
\* the same supervisor state as reseeding once, and the second call sends
\* exactly one SetSeed of the smallest to every live reducer and no
\* RequestNext.
C21_ReseedIdempotent ==
    LET once == reseed_reducers(Cur)
        twice == reseed_reducers([once EXCEPT !.out = <<>>])
    IN /\ [twice EXCEPT !.out = <<>>] = [once EXCEPT !.out = <<>>]
       /\ Len(twice.out) = Cardinality(once.reducer_actors)
       /\ \A i \in 1..Len(twice.out) :
             /\ twice.out[i].to = "reducer"
             /\ twice.out[i].msg = MsgSetSeed(smallest_interesting)
       /\ \A id \in once.reducer_actors :
             CountSent(twice.out, "reducer", id, "SetSeed") = 1

\* C21 witness: a supervisor at its receive, after a promotion, with one
\* reducer in the respawn pool and the other live and exhausted: a reseed
\* here respawns, sends SetSeed to both and RequestNext to both.
C21_Witness ==
    /\ AtBoundary
    /\ reducers_without_actors # <<>>
    /\ exhausted_reducers # {}
    /\ exhausted_reducers \subseteq reducer_actors
    /\ smallest_interesting.size < InitialSize

\* C22: in the trivial-convergence configuration every promotion takes
\* exactly one byte off the smallest and logs one NewSmallest, nothing else
\* changes the smallest, and a run that has completed shutdown has a
\* smallest of size 1: ConvergeSize - 1 promotions.
C22_TrivialConvergence ==
    [][/\ pc # "start" =>
            /\ CountLogged(logged', "NewSmallest") =
                  (IF smallest_interesting' # smallest_interesting
                   THEN 1 ELSE 0)
            /\ smallest_interesting' # smallest_interesting =>
                  smallest_interesting'.size = smallest_interesting.size - 1
       /\ pc = "start" => smallest_interesting'.size = ConvergeSize
       /\ pc' = "done" => smallest_interesting'.size = 1
      ]_vars

\* C22 witness: a run with two workers has completed shutdown at size 1.
C22_Witness ==
    /\ pc = "done"
    /\ num_workers = 2
    /\ orig_size = ConvergeSize
    /\ smallest_interesting.size = 1
    /\ test_case_file.size = 1

\* The FinalReducedSize message the logger has taken.
FinalMessage ==
    consumed[CHOOSE i \in 1..Len(consumed) :
                consumed[i].type = "FinalReducedSize"]

\* C23: when the channel has closed after the supervisor's FinalReducedSize,
\* the size printed as the final size is that message's final_size, the size
\* of the supervisor's smallest at shutdown.
C23_FinalSizePrinted ==
    (logger_pc = "closed" /\ FinalSent(consumed)) =>
        printed_final_size = FinalMessage.final_size

\* How many messages of this type and provenance the logger has taken.
CountConsumed(type, provenance) ==
    Cardinality({i \in 1..Len(consumed) :
        /\ consumed[i].type = type
        /\ consumed[i].provenance = provenance})

\* How many FinishedMerging with merged >= upstream it has taken.
CountMergesNotSmaller ==
    Cardinality({i \in 1..Len(consumed) :
        /\ consumed[i].type = "FinishedMerging"
        /\ consumed[i].merged_size >= consumed[i].upstream_size})

\* C24: after any sequence of log messages, the counters of a provenance are
\* the numbers of NewSmallest, IsNotSmaller and JudgedNotInteresting taken
\* with it, the third counter of "merge" counting in addition every
\* FinishedMerging with merged >= upstream; a provenance has an entry exactly
\* if one of these is not zero, so nothing else changes a counter.
C24_StatsAreCounts ==
    \A p \in Range(LogProvenances) :
        LET expected ==
                <<CountConsumed("NewSmallest", p),
                  CountConsumed("IsNotSmaller", p),
                  CountConsumed("JudgedNotInteresting", p)
                      + (IF p = "merge" THEN CountMergesNotSmaller ELSE 0)>>
        IN /\ p \in DOMAIN stats <=> expected # NoCounts
           /\ p \in DOMAIN stats => stats[p] = expected

\* C24 witness: the logger has taken a merge that came out equal, a merge
\* that came out smaller, a JudgedNotInteresting of "merge" and a
\* NewSmallest.
C24_Witness ==
    /\ "merge" \in DOMAIN stats
    /\ stats["merge"][3] = 2
    /\ \E i \in 1..Len(consumed) :
          /\ consumed[i].type = "FinishedMerging"
          /\ consumed[i].merged_size = consumed[i].upstream_size
    /\ \E i \in 1..Len(consumed) :
          /\ consumed[i].type = "FinishedMerging"
          /\ consumed[i].merged_size < consumed[i].upstream_size
    /\ CountConsumed("JudgedNotInteresting", "merge") = 1
    /\ \E p \in DOMAIN stats : stats[p][1] = 1

\* The triple a is not below the triple b in lexicographic order.
LexNotBelow(a, b) ==
    \/ a[1] > b[1]
    \/ a[1] = b[1] /\ a[2] > b[2]
    \/ a[1] = b[1] /\ a[2] = b[2] /\ a[3] >= b[3]

\* C25: the histogram has one row per entry of stats, and a row printed
\* above another is not below it in the lexicographic order of (smallest,
\* not-smallest, not-interesting): the first counter decides, the second
\* only between rows equal on the first, the third only between rows equal
\* on the first two.
C25_HistogramOrder ==
    logger_pc = "closed" =>
        /\ Len(printed_rows) = Cardinality(DOMAIN stats)
        /\ \A p \in DOMAIN stats :
              \E i \in 1..Len(printed_rows) :
                 printed_rows[i] = [reducer |-> p, counts |-> stats[p]]
        /\ \A i, j \in 1..Len(printed_rows) :
              i < j => LexNotBelow(printed_rows[i].counts,
                                   printed_rows[j].counts)

\* C25 witness: a printed histogram where the second counter put a row
\* above one with a larger third counter, and the first counter put a row
\* above one with a larger second counter.
C25_Witness ==
    /\ logger_pc = "closed"
    /\ Len(printed_rows) = 3
    /\ printed_rows[1].counts[1] > printed_rows[2].counts[1]
    /\ printed_rows[1].counts[2] < printed_rows[2].counts[2]
    /\ printed_rows[2].counts[1] = printed_rows[3].counts[1]
    /\ printed_rows[2].counts[2] > printed_rows[3].counts[2]
    /\ printed_rows[2].counts[3] < printed_rows[3].counts[3]

\* C26: a successful commit_test_case leaves HEAD at a new commit whose only
\* parent is the previous HEAD, whose tree records the contents test_case
\* has at the commit (just staged), and whose id is the value returned.
C26_CommitRecordsTestCase ==
    [][Len(repo'.commits) = Len(repo.commits) + 1 =>
        /\ head_id(repo') = repo'.returned
        /\ head_id(repo') # head_id(repo)
        /\ head_commit(repo').parent = head_id(repo)
        /\ repo'.index = repo.test_case
        /\ head_tree(repo') = repo.test_case]_vars

\* Positions in out of the messages of this type sent to this reducer.
SentAt(out, id, type) ==
    {i \in 1..Len(out) :
        out[i].to = "reducer" /\ out[i].id = id /\ out[i].msg.type = type}

\* C27: a reseed in any reachable supervisor state respawns every pooled
\* reducer under a fresh id, sends every live reducer exactly one SetSeed of
\* the smallest, sends exactly one RequestNext, after the SetSeed, to those
\* that were exhausted or were just respawned and none to the others, sends
\* nothing else, and leaves exhausted_reducers empty.  The first reseed, in
\* the step that starts run(), sends every configured reducer the SetSeed of
\* the initial test case followed by one RequestNext.
C27_ReseedContract ==
    /\ LET r == reseed_reducers(Cur)
           new == r.reducer_actors \ reducer_actors
       IN /\ r.reducers_without_actors = <<>>
          /\ reducer_actors \subseteq r.reducer_actors
          /\ Cardinality(new) = Len(reducers_without_actors)
          /\ \A id \in new : id >= reducer_id_counter
          /\ r.exhausted_reducers = {}
          /\ \A i \in 1..Len(r.out) :
                /\ r.out[i].to = "reducer"
                /\ r.out[i].id \in r.reducer_actors
                /\ r.out[i].msg.type \in {"SetSeed", "RequestNext"}
          /\ \A id \in r.reducer_actors :
                /\ Cardinality(SentAt(r.out, id, "SetSeed")) = 1
                /\ \A i \in SentAt(r.out, id, "SetSeed") :
                      r.out[i].msg = MsgSetSeed(smallest_interesting)
                /\ Cardinality(SentAt(r.out, id, "RequestNext")) =
                      (IF id \in exhausted_reducers \cup new THEN 1 ELSE 0)
                /\ \A i \in SentAt(r.out, id, "SetSeed"),
                      j \in SentAt(r.out, id, "RequestNext") : i < j
    /\ (pc = "running" /\ handled.type = "None" /\ sent # <<>>) =>
          /\ Len(sent) = 2 * num_reducers
          /\ \A id \in 0..(num_reducers - 1) :
                /\ Cardinality(SentAt(sent, id, "SetSeed")) = 1
                /\ Cardinality(SentAt(sent, id, "RequestNext")) = 1
                /\ \A i \in SentAt(sent, id, "SetSeed") :
                      /\ sent[i].msg = MsgSetSeed(Interesting(orig_size, 0))
                      /\ \A j \in SentAt(sent, id, "RequestNext") : i < j

\* C27 witness: a promotion has just reseeded two reducers, one that was
\* exhausted (SetSeed and RequestNext) and one that was not (SetSeed only).
C27_Witness ==
    /\ AtBoundary
    /\ CountLogged(logged, "NewSmallest") = 1
    /\ \E a, b \in reducer_actors :
          /\ Cardinality(SentAt(sent, a, "SetSeed")) = 1
          /\ Cardinality(SentAt(sent, a, "RequestNext")) = 1
          /\ Cardinality(SentAt(sent, b, "SetSeed")) = 1
          /\ Cardinality(SentAt(sent, b, "RequestNext")) = 0
    /\ exhausted_reducers = {}

\* What drain_queues does from the supervisor state s0 it is called in.
DrainContract(s0) ==
    LET h == drain_queues(s0)
        n == Min(Len(s0.idle_workers), Len(s0.reduction_queue))
        to_workers == SelectSeq(h.out, LAMBDA o : o.to = "worker")
        to_reducers == SelectSeq(h.out, LAMBDA o : o.to = "reducer")
    IN /\ Len(s0.idle_workers) > 0 \/ Len(s0.reduction_queue) > 0
       /\ h.panic = ""
       /\ h.panic = "" =>
             /\ h.idle_workers = SubSeq(s0.idle_workers, n + 1,
                                        Len(s0.idle_workers))
             /\ h.reduction_queue = SubSeq(s0.reduction_queue, n + 1,
                                           Len(s0.reduction_queue))
             /\ Len(to_workers) = n
             /\ \A k \in 1..n :
                   to_workers[k] = ToWorker(s0.idle_workers[k],
                                       MsgNextReduction(s0.reduction_queue[k]))
             /\ \A o \in Range(to_reducers) : o.msg = MsgRequestNext
             /\ \A r \in s0.reducer_actors :
                   CountSent(h.out, "reducer", r, "RequestNext") =
                       Cardinality({k \in 1..n :
                           /\ s0.reduction_queue[k].reducer = r
                           /\ r \notin s0.exhausted_reducers})
             /\ Len(to_reducers) =
                   Cardinality({k \in 1..n : s0.reduction_queue[k].reducer
                                    \notin s0.exhausted_reducers})

\* C28: drain_queues is never called with idle_workers and the queue both
\* empty; called for a worker that asks for work or reports a test case that
\* is not smaller, or for a reduction just queued, it takes the first
\* min(|idle_workers|, |queue|) idle workers and queued Potentials, sends
\* the k-th worker the k-th Potential, and sends one RequestNext to the
\* reducer of each dispatched Potential unless it is exhausted, without
\* failing an assertion; and whenever the supervisor waits for a message,
\* idle_workers or the queue is empty.
C28_Dispatch ==
    [][/\ panic_msg' # "drain_queues: no potential to do new work"
       /\ pc' = "running" => idle_workers' = <<>> \/ reduction_queue' = <<>>
       /\ (AtBoundary /\ incoming # <<>> /\ handled' = Head(incoming)) =>
             LET m == Head(incoming)
             IN /\ (/\ m.type = "RequestNextReduction"
                    /\ m.who \in workers) =>
                      DrainContract([Cur EXCEPT
                          !.idle_workers = Append(@, m.who)])
                /\ (/\ m.type = "ReportInteresting"
                    /\ m.who \in workers
                    /\ m.size >= smallest_interesting.size) =>
                      DrainContract([Cur EXCEPT
                          !.idle_workers = Append(@, m.who)])
                /\ (/\ m.type = "ReplyNextReduction"
                    /\ m.reducer \in reducer_actors
                    /\ m.size < smallest_interesting.size) =>
                      \A ahead \in Predict(reduction_queue) :
                         DrainContract([Cur EXCEPT !.reduction_queue =
                             QueueInsert(@, [size |-> m.size,
                                             provenance |-> m.provenance,
                                             reducer |-> m.reducer], ahead)])
      ]_vars

\* The step reseeds or spawns workers without a promotion and without a
\* worker failure: run() has gone round its outer loop.
IterationStarts ==
    /\ AtBoundary
    /\ CountLogged(logged', "NewSmallest") = 0
    /\ handled'.type \notin {"None", "WorkerErrored", "WorkerPanicked"}
    /\ \/ \E i \in 1..Len(sent') : sent'[i].msg.type = "SetSeed"
       \/ worker_id_counter' > worker_id_counter

\* C29: run() starts another iteration exactly when the iteration ended with
\* the registry drained of workers, not by an interrupt, and the smallest is
\* strictly smaller than at the iteration's start; otherwise the end of an
\* iteration goes to shutdown.  So every iteration but the last contains a
\* promotion, and a run that completes without interrupt ends with the
\* smallest as large as at the start of its last iteration.
C29_OuterLoop ==
    [][/\ IterationStarts =>
             /\ handled'.type # "GotSigint"
             /\ smallest_interesting'.size < last_iter_size
             /\ smallest_interesting' = smallest_interesting
             /\ last_iter_size' = smallest_interesting'.size
             /\ \A w \in workers :
                   /\ CountSent(sent', "worker", w, "Shutdown") = 1
                   /\ w \notin workers'
             /\ pc' \in {"running", "panicked"}
       /\ ~IterationStarts => last_iter_size' = last_iter_size \/ pc = "start"
       /\ (AtBoundary /\ incoming # <<>> /\ handled' = Head(incoming)) =>
             \A ahead \in Predict(reduction_queue) :
                LET h == handle_message(Cur, Head(incoming), ahead)
                    ended == h.panic = "" /\ h.ret \in {"true", "false"}
                    again == /\ h.ret = "true"
                             /\ h.smallest_interesting.size < last_iter_size
                IN /\ (ended /\ again) => IterationStarts
                   /\ (ended /\ ~again) => pc' \in {"done", "panicked"}
                   /\ ~ended => ~IterationStarts
       /\ pc = "running" => last_iter_size >= smallest_interesting.size
       /\ (pc' = "done" /\ ~sigint_fired') =>
             smallest_interesting'.size = last_iter_size'
      ]_vars

\* C29 witness: a second iteration has just started after a promotion: the
\* reducers were reseeded by a step that promoted nothing, the old workers
\* are gone and new ones are registered.
C29_Witness ==
    /\ AtBoundary
    /\ handled.type \in {"RequestNextReduction", "ReplyExhausted"}
    /\ last_iter_size < orig_size
    /\ last_iter_size = smallest_interesting.size
    /\ \E i \in 1..Len(sent) : sent[i].msg.type = "SetSeed"
    /\ \E i \in 1..Len(sent) : sent[i].msg.type = "Shutdown"
    /\ workers # {}
    /\ \A w \in workers : w >= num_workers

\* C30: whenever the supervisor waits for a message, every queued Potential
\* is strictly smaller than the smallest interesting test case.
C30_QueuedAreSmaller ==
    AtBoundary =>
        \A i \in 1..Len(reduction_queue) :
            reduction_queue[i].size < smallest_interesting.size

\* C30 witness: a promotion has just been handled while a smaller Potential
\* was queued, and that Potential is still queued.
C30_Witness ==
    /\ AtBoundary
    /\ handled.type = "ReportInteresting"
    /\ CountLogged(logged, "NewSmallest") = 1
    /\ reduction_queue # <<>>

\* A Shutdown to a worker is among these messages.
ShutsWorkerDown(out) ==
    \E i \in 1..Len(out) : out[i].to = "worker" /\ out[i].msg.type = "Shutdown"

\* C31: whenever exhausted_reducers and the live reducer actors have the
\* same number of elements they are the same set, in every state and in the
\* state the termination check looks at; so a message other than an
\* interrupt gets a worker shut down only when every live reducer is in
\* exhausted_reducers and the queue is empty.
C31_CardinalityTestIsEquality ==
    [][/\ Cardinality(exhausted_reducers') = Cardinality(reducer_actors') =>
             exhausted_reducers' = reducer_actors'
       /\ (AtBoundary /\ incoming # <<>> /\ handled' = Head(incoming)) =>
             \A ahead \in Predict(reduction_queue) :
                LET h == handle_message(Cur, Head(incoming), ahead)
                IN /\ Cardinality(h.exhausted_reducers) =
                          Cardinality(h.reducer_actors) =>
                             h.exhausted_reducers = h.reducer_actors
                   /\ ShutsWorkerDown(h.out) =>
                         /\ h.exhausted_reducers = h.reducer_actors
                         /\ h.reduction_queue = <<>>
      ]_vars

\* C31 witness: after a reducer failed and was respawned under a new id, the
\* termination check has shut a worker down with both reducers exhausted.
C31_Witness ==
    /\ handled.type \notin {"None", "GotSigint"}
    /\ ShutsWorkerDown(sent)
    /\ fails > 0
    /\ \E id \in reducer_actors : id >= num_reducers
    /\ Cardinality(reducer_actors) = 2
    /\ pc \in {"running", "done"}

\* The two lookups of a queue entry's reducer among the live reducer actors.
QueueLookupPanics ==
    {"drain_queues: reducer_actors.contains_key(reducer_id)",
     "retain: reducers[&reducer_id]"}

\* C33: every queue entry names a live reducer actor whenever it is
\* dispatched or pruned, so neither the assertion in drain_queues nor the
\* lookup in the promotion's prune ever stops the supervisor.
C33_QueuedReducersAreLive == panic_msg \notin QueueLookupPanics

\* The assertions on the worker registry.
WorkerRegistryPanics ==
    {"restart_worker: old_worker.is_some()",
     "enqueue_worker_for_reduction: workers.contains_key(who.id())",
     "drain_queues: workers.contains_key(worker.id())"}

\* The worker a message from a worker names.
WorkerOf(m) ==
    IF m.type \in {"WorkerErrored", "WorkerPanicked"} THEN m.id ELSE m.who

FromWorker(m) ==
    m.type \in {"WorkerErrored", "WorkerPanicked", "RequestNextReduction",
                "ReportInteresting"}

\* C34: while the supervisor waits for a message every handle in idle_workers
\* is in the worker registry, and so is the worker named by the message it
\* handles next when that message comes from a worker; the assertions of
\* restart_worker, enqueue_worker_for_reduction and drain_queues on the
\* registry never stop the supervisor.
C34_WorkersAreRegistered ==
    /\ panic_msg \notin WorkerRegistryPanics
    /\ AtBoundary =>
          /\ Range(idle_workers) \subseteq workers
          /\ (incoming # <<>> /\ FromWorker(Head(incoming))) =>
                WorkerOf(Head(incoming)) \in workers

\* C34 witness: after a promotion and after the termination check shut the
\* first workers down, a worker spawned later fails and restart_worker finds
\* it in the registry.
C34_Witness ==
    /\ pc = "running"
    /\ panic_msg = ""
    /\ smallest_interesting.size < orig_size
    /\ handled.type \in {"WorkerPanicked", "WorkerErrored"}
    /\ handled.id >= num_workers
    /\ handled.id \notin workers
    /\ workers # {}

\* The RequestNext messages reducer r has not answered yet.
UnansweredRequests(r) ==
    IF r \in DOMAIN reducer_actor
    THEN Cardinality({i \in 1..Len(reducer_actor[r].inbox) :
                         reducer_actor[r].inbox[i].type = "RequestNext"})
    ELSE 0

\* The replies of reducer r the supervisor has not handled yet.
RepliesInFlight(r) ==
    Cardinality({i \in 1..Len(incoming) :
                    /\ incoming[i].type \in {"ReplyNextReduction",
                                             "ReplyExhausted"}
                    /\ incoming[i].reducer = r})

\* The Potentials of reducer r waiting in the queue.
QueuedPotentials(r) ==
    Cardinality({i \in 1..Len(reduction_queue) :
                    reduction_queue[i].reducer = r})

Outstanding(r) == UnansweredRequests(r) + RepliesInFlight(r) + QueuedPotentials(r)

\* A failure notice of reducer r has not been handled yet.
FailureInFlight(r) ==
    \E i \in 1..Len(incoming) :
        /\ incoming[i].type \in {"ReducerPanicked", "ReducerErrored"}
        /\ incoming[i].id = r

\* C32 as stated: while the supervisor waits for a message, every live
\* reducer actor that is not in exhausted_reducers has exactly one unanswered
\* RequestNext, reply in flight or queued Potential, and every reducer in
\* exhausted_reducers has none.
C32_OneOutstandingAlways ==
    AtBoundary =>
        /\ \A r \in reducer_actors \ exhausted_reducers : Outstanding(r) = 1
        /\ \A r \in exhausted_reducers : Outstanding(r) = 0

\* C32, amended: while the supervisor waits for a message, every reducer in
\* reducer_actors has at most one unanswered RequestNext, reply in flight or
\* queued Potential; it has exactly one unless it is in exhausted_reducers,
\* where it has none, or its thread has died and the supervisor has not yet
\* handled its ReducerPanicked or ReducerErrored message.
C32_OneOutstandingRequest ==
    AtBoundary =>
        /\ \A r \in reducer_actors : Outstanding(r) <= 1
        /\ \A r \in reducer_actors \ exhausted_reducers :
              FailureInFlight(r) \/ Outstanding(r) = 1
        /\ \A r \in exhausted_reducers : Outstanding(r) = 0

\* C32 witness: one reducer has died on its request, its failure notice is
\* still in flight and nothing of it is outstanding, while the other reducer
\* has a Potential in the queue.
C32_Witness ==
    /\ AtBoundary
    /\ exhausted_reducers = {}
    /\ \E r, q \in reducer_actors :
          /\ FailureInFlight(r) /\ Outstanding(r) = 0
          /\ ~FailureInFlight(q) /\ QueuedPotentials(q) = 1

====
